---------------------------- MODULE Spec2Model ----------------------------
(***************************************************************************)
(* Model of the Obsidian "ID Link" plugin (src/main.ts, lines 1-446).      *)
(*                                                                         *)
(* Strings are sequences of one-character strings, so that regular         *)
(* expression matching, number/string conversion and percent-encoding are  *)
(* computed character by character.  A JavaScript value is a record        *)
(* [t, s, n]: t is its type tag, s its characters when it is a string and  *)
(* n its value when it is a number.                                        *)
(***************************************************************************)
EXTENDS Integers, Sequences, FiniteSets, TLC

\* ------------------------------------------------------------------ bounds

\* Largest instant of the clock read by moment() in generateNewId.
MaxClock == 1
\* Largest number of write-backs (processFrontMatter calls) in flight.
MaxPending == 1
\* Instants and concurrent calls of the runs that race on one note.
RaceClock == 2
RaceCalls == 2
\* Longest identifier and longest vault name handed to the link codec.
MaxIdLen == 3
MaxVaultLen == 1

\* -------------------------------------------------------------- JS values

Undef == [t |-> "undef", s |-> <<>>, n |-> 0]
Null == [t |-> "null", s |-> <<>>, n |-> 0]
Str(x) == [t |-> "str", s |-> x, n |-> 0]
Num(k) == [t |-> "num", s |-> <<>>, n |-> k]

DigitChars == <<"0", "1", "2", "3", "4", "5", "6", "7", "8", "9">>
Digits == {DigitChars[i] : i \in 1..10}
DigitVal(c) == CHOOSE i \in 0..9 : DigitChars[i + 1] = c

\* Number.prototype.toString for a non-negative integer.
RECURSIVE NumToStr(_)
NumToStr(k) ==
    IF k < 10 THEN <<DigitChars[k + 1]>>
    ELSE NumToStr(k \div 10) \o <<DigitChars[(k % 10) + 1]>>

\* String.prototype.trim restricted to the space character.
RECURSIVE TrimLeft(_)
TrimLeft(x) == IF x # <<>> /\ Head(x) = " " THEN TrimLeft(Tail(x)) ELSE x
RECURSIVE TrimRight(_)
TrimRight(x) ==
    IF x # <<>> /\ x[Len(x)] = " " THEN TrimRight(SubSeq(x, 1, Len(x) - 1)) ELSE x

RECURSIVE DigitsToNum(_)
DigitsToNum(x) ==
    IF x = <<>> THEN 0
    ELSE 10 * DigitsToNum(SubSeq(x, 1, Len(x) - 1)) + DigitVal(x[Len(x)])

\* ToNumber applied to a string of decimal digits, spaces and other
\* characters: surrounding white space is dropped, the empty string is 0, a
\* run of digits is its value, anything else is NaN (IsNumeric is FALSE).
IsNumeric(x) ==
    LET y == TrimRight(TrimLeft(x)) IN \A i \in 1..Len(y) : y[i] \in Digits
StrToNum(x) == DigitsToNum(TrimRight(TrimLeft(x)))

\* JavaScript truthiness: `!v`.
Falsy(v) ==
    \/ v.t \in {"undef", "null"}
    \/ v.t = "str" /\ v.s = <<>>
    \/ v.t = "num" /\ v.n = 0

\* `v?.toString()`.
OptToString(v) ==
    CASE v.t \in {"undef", "null"} -> Undef
      [] v.t = "str" -> v
      [] v.t = "num" -> Str(NumToStr(v.n))

\* `v == id` where id is a string (abstract equality).
LooseEq(v, id) ==
    CASE v.t \in {"undef", "null"} -> FALSE
      [] v.t = "str" -> v.s = id
      [] v.t = "num" -> IsNumeric(id) /\ StrToNum(id) = v.n

\* `v === w` (strict equality).
StrictEq(v, w) == v = w

\* ------------------------------------------------------------ RegExp model

\* The filename patterns a user can configure, as the automaton each compiles
\* to.  Group(k) is "^(\d{k})[ .]" (the default setting is Group(14)),
\* NoGroup(k) is "^\d{k}[ .]" (no capture group) and Star is "^(\d*)[ .]".
Group(k) == [kind |-> "group", n |-> k]
NoGroup(k) == [kind |-> "nogroup", n |-> k]
Star == [kind |-> "star", n |-> 0]
\* A text that is no regular expression, such as "^(": new RegExp throws.
Invalid == [kind |-> "invalid", n |-> 0]

IsSep(c) == c \in {" ", "."}

\* Length of the longest prefix of x made of digits.
RECURSIVE DigitPrefix(_)
DigitPrefix(x) ==
    IF x # <<>> /\ Head(x) \in Digits THEN 1 + DigitPrefix(Tail(x)) ELSE 0

\* RegExp.prototype.exec: [matched, g1] where g1 is the element [1] of the
\* match array (undefined when the pattern has no capture group).
RegExpExec(re, x) ==
    LET k == IF re.kind = "star" THEN DigitPrefix(x) ELSE re.n
        hit == /\ Len(x) >= k + 1
               /\ \A i \in 1..k : x[i] \in Digits
               /\ IsSep(x[k + 1])
    IN IF ~hit THEN [matched |-> FALSE, g1 |-> Undef]
       ELSE IF re.kind = "nogroup" THEN [matched |-> TRUE, g1 |-> Undef]
       ELSE [matched |-> TRUE, g1 |-> Str(SubSeq(x, 1, k))]

\* new RegExp(source): the compiled pattern of a source text.
NewRegExp(source) == source

\* Whether new RegExp(source) returns (it throws a SyntaxError otherwise).
Compiles(source) == source # Invalid

\* ------------------------------------------------------------- Link codec

\* The characters encodeURIComponent leaves alone, among those the model uses.
Unreserved == Digits \cup {"a", "b", "V", "i", "d", "u", "l", "t", ".", "-", "_"}
\* The UTF-8 code, in hexadecimal, of the other characters the model uses.
HexOf(c) ==
    CASE c = " " -> <<"2", "0">>
      [] c = "#" -> <<"2", "3">>
      [] c = "%" -> <<"2", "5">>
      [] c = "&" -> <<"2", "6">>
      [] c = "=" -> <<"3", "D">>
      [] c = "?" -> <<"3", "F">>
Reserved == {" ", "#", "%", "&", "=", "?"}

RECURSIVE encodeURIComponent(_)
encodeURIComponent(x) ==
    IF x = <<>> THEN <<>>
    ELSE (IF Head(x) \in Unreserved THEN <<Head(x)>> ELSE <<"%">> \o HexOf(Head(x)))
         \o encodeURIComponent(Tail(x))

RECURSIVE decodeURIComponent(_)
decodeURIComponent(x) ==
    IF x = <<>> THEN <<>>
    ELSE IF Head(x) = "%" /\ Len(x) >= 3
              /\ \E c \in Reserved : HexOf(c) = SubSeq(x, 2, 3)
         THEN <<CHOOSE c \in Reserved : HexOf(c) = SubSeq(x, 2, 3)>>
              \o decodeURIComponent(SubSeq(x, 4, Len(x)))
         ELSE <<Head(x)>> \o decodeURIComponent(Tail(x))

Scheme == "obsidian://id-link"
VaultKey == <<"v", "a", "u", "l", "t">>
IdKey == <<"i", "d">>

\* ------------------------------------------------------------------ state

Property == "0-property"
FileName == "1-fileName"
IdSource == {Property, FileName}

Notes == {"A", "B"}
NoFile == "-"
Keys == {"id", "uid"}

VARIABLES
    idSources,          \* settings.idSources
    idProperty,         \* settings.idProperty
    idFilenameRegex,    \* settings.idFilenameRegex
    idFormat,           \* settings.idFormat
    autoGenerateId,     \* settings.autoGenerateId
    syncIdToProperty,   \* settings.syncIdToProperty
    checks,             \* plugin.checks: the source each matcher was built for
    filenameRegex,      \* plugin.filenameRegex
    vaultName,          \* app.vault.getName()
    fileName,           \* TFile.name of every note
    disk,               \* the front matter stored in every note's file
    cache,              \* app.metadataCache: the front matter last parsed
    dataview,           \* isPluginEnabled(app) and getAPI(app) succeed
    pagesOrder,         \* enumeration order of dvApi.pages()
    filesOrder,         \* enumeration order of app.vault.getFiles()
    modified,           \* notes with a "modify" event not yet delivered
    pending,            \* suspended saveIdToProperty calls
    last                \* what the latest step did

settingsVars == <<idSources, idProperty, idFilenameRegex, idFormat,
                  autoGenerateId, syncIdToProperty, checks, filenameRegex>>
hostVars == <<vaultName, fileName, disk, cache, dataview, pagesOrder,
              filesOrder, modified>>
vars == <<settingsVars, hostVars, pending, last>>

Includes(seq, x) == \E i \in 1..Len(seq) : seq[i] = x

\* ------------------------------------------------------- plugin functions

findIdInFileName(name) == RegExpExec(filenameRegex, name).g1

findIdInProperty(file) == cache[file][idProperty]

\* generateIdLink without percent-encoding.
generateIdLink_Raw(id) ==
    <<Scheme, "?">> \o VaultKey \o <<"=">> \o vaultName \o <<"&">> \o IdKey \o <<"=">> \o id

generateIdLink(id) ==
    <<Scheme, "?">> \o VaultKey \o <<"=">> \o encodeURIComponent(vaultName)
    \o <<"&">> \o IdKey \o <<"=">> \o encodeURIComponent(id)

\* moment().format(idFormat) at instant t (t < 100).
TwoDigits(t) == <<DigitChars[(t \div 10) + 1], DigitChars[(t % 10) + 1]>>
generateNewId(t) ==
    IF idFormat = "YYYYMMDDHHmmss"
    THEN <<"2", "0", "2", "4", "0", "1", "0", "1", "1", "2", "0", "0">> \o TwoDigits(t)
    ELSE TwoDigits(t)

findId(file) ==
    LET id1 == IF Includes(idSources, Property)
               THEN findIdInProperty(file) ELSE Undef
        id2 == IF Falsy(id1) /\ Includes(idSources, FileName)
               THEN findIdInFileName(fileName[file]) ELSE id1
    IN OptToString(id2)

\* ------------------------------------------------------------ observation

\* A notice or an error: the "Id Link: " prefix or none, the text, and the
\* identifier interpolated into the text (if any).
Msg(prefix, text, id) == [prefix |-> prefix, text |-> text, id |-> id]
NoMsg == Msg("", "", <<>>)
NoOpen == [file |-> NoFile, sub |-> Undef]

\* The settings, metadata and names an operation starts from.
Pre ==
    [idSources |-> idSources, idProperty |-> idProperty,
     filenameRegex |-> filenameRegex, autoGenerateId |-> autoGenerateId,
     syncIdToProperty |-> syncIdToProperty, checks |-> checks,
     cache |-> cache, disk |-> disk, fileName |-> fileName,
     dataview |-> dataview, pagesOrder |-> pagesOrder,
     filesOrder |-> filesOrder, vaultName |-> vaultName]

\* What a step that is no plugin operation leaves in `last`. The fields:
\* op, the operation; file and params, its inputs; pre, the state it started
\* from; id, the identifier it resolved, generated or derived; result, what it
\* returned; issued, the write-backs it started; wrote, the write-backs it
\* completed; notices, the notifications it showed; thrown, the error it
\* threw; opened, the location it opened; clipboard, what it copied; queried
\* and scanned, whether it enumerated the Dataview pages and the vault files.
Idle ==
    [op |-> "env", file |-> NoFile, params |-> [id |-> Undef, block |-> Undef],
     pre |-> Pre, id |-> Undef, result |-> Undef, issued |-> <<>>,
     wrote |-> <<>>, notices |-> <<>>, thrown |-> NoMsg, opened |-> NoOpen,
     clipboard |-> Undef, queried |-> FALSE, scanned |-> FALSE]

\* showErrorAndThrow that throws without showing a notice.
showErrorAndThrow_Silent(o, errorMessage, id) ==
    [o EXCEPT !.thrown = Msg("Id Link: ", errorMessage, id)]

\* new Notice(message); throw Error(message)
showErrorAndThrow(o, errorMessage, id) ==
    LET message == Msg("Id Link: ", errorMessage, id)
    IN [o EXCEPT !.notices = Append(@, message), !.thrown = message]

DataviewMissing ==
    "Dataview is missed. Please install and enable Dataview plugin to use Id Link plugin"

\* -------------------------------------------------------- resolution steps

\* The "Copy Id" command with `file` the active file (NoFile: none).
CopyId(file) ==
    /\ last' =
         IF file = NoFile
         THEN [Idle EXCEPT !.op = "copyId",
                           !.notices = <<Msg("", "No active file", <<>>)>>]
         ELSE LET id == findId(file)
              IN IF Falsy(id)
                 THEN [Idle EXCEPT !.op = "copyId", !.file = file, !.result = id,
                           !.notices = <<Msg("", "No ID found in the file", <<>>)>>]
                 ELSE [Idle EXCEPT !.op = "copyId", !.file = file, !.result = id,
                           !.clipboard = id,
                           !.notices = <<Msg("", "ID copied to clipboard: ", id.s)>>]
    /\ UNCHANGED <<settingsVars, hostVars, pending>>

\* The tail of generateLinkAndCopyToClipboard once findIdAndGenerateLink has
\* returned `link`.
CopyLinkOutcome(o, link) ==
    IF Falsy(link)
    THEN [o EXCEPT !.result = link,
                   !.notices = Append(@, Msg("", "No ID found in the file", <<>>))]
    ELSE [o EXCEPT !.result = link, !.clipboard = link,
                   !.notices = Append(@, Msg("", "ID link copied to clipboard", <<>>))]

\* The generation branch taken whatever autoGenerateId says.
ShouldGenerate_IgnoresFlag(id) == Falsy(id) /\ Includes(idSources, Property)

\* Whether findIdAndGenerateLink takes the generation branch for the
\* identifier `id` that findId returned.
ShouldGenerate(id) ==
    /\ Falsy(id)
    /\ autoGenerateId
    /\ Includes(idSources, Property)

\* The part of findIdAndGenerateLink after the generation branch.
LinkOf(id) == IF Falsy(id) THEN Undef ELSE Str(generateIdLink(id.s))

\* "Copy ID Link" (command or file menu) on `file`: findIdAndGenerateLink up
\* to its end, or up to the await of saveIdToProperty. The call happens at
\* one of the instants `instants`, with fewer than `calls` calls suspended.
CopyIdLinkAt(file, instants, calls) ==
    LET id == findId(file)
    IN IF ShouldGenerate(id)
       THEN /\ Len(pending) < calls
            /\ \E t \in instants :
                 LET newId == Str(generateNewId(t))
                     call == [op |-> "link", file |-> file, id |-> newId]
                 IN /\ pending' = Append(pending, call)
                    /\ last' = [Idle EXCEPT !.op = "copyIdLink", !.file = file,
                                           !.id = newId, !.issued = <<call>>]
            /\ UNCHANGED <<settingsVars, hostVars>>
       ELSE /\ last' = CopyLinkOutcome(
                          [Idle EXCEPT !.op = "copyIdLink", !.file = file, !.id = id],
                          LinkOf(id))
            /\ UNCHANGED <<settingsVars, hostVars, pending>>

CopyIdLink(file) == CopyIdLinkAt(file, 1..MaxClock, MaxPending)

\* "Copy ID Link" with no active file.
CopyIdLinkNoFile ==
    /\ last' = [Idle EXCEPT !.op = "copyIdLink",
                            !.notices = <<Msg("", "No active file", <<>>)>>]
    /\ UNCHANGED <<settingsVars, hostVars, pending>>

RemoveAt(seq, i) == SubSeq(seq, 1, i - 1) \o SubSeq(seq, i + 1, Len(seq))

\* processFrontMatter runs the callback of saveIdToProperty for the i-th
\* suspended call, stores the file (which raises "modify") and the caller
\* resumes after its await.
WriteBack(i) ==
    LET call == pending[i]
        write == [file |-> call.file, key |-> idProperty, value |-> call.id]
        done == [Idle EXCEPT !.op = IF call.op = "link" THEN "copyIdLinkDone"
                                                        ELSE "syncDone",
                             !.file = call.file,
                             !.id = call.id, !.wrote = <<write>>]
    IN /\ disk' = [disk EXCEPT ![call.file][idProperty] = call.id]
       /\ modified' = modified \cup {call.file}
       /\ pending' = RemoveAt(pending, i)
       /\ last' = IF call.op = "link"
                  THEN CopyLinkOutcome(done, LinkOf(call.id))
                  ELSE done
       /\ UNCHANGED <<settingsVars, vaultName, fileName, cache, dataview,
                      pagesOrder, filesOrder>>

\* syncIdFromFileName without its check of the enabled sources.
SyncMustWrite_IgnoresSources(propertyId, fileNameId) ==
    /\ ~Falsy(fileNameId)
    /\ (Falsy(propertyId) \/ ~StrictEq(propertyId, fileNameId))

\* Whether syncIdFromFileName writes, given what it read.
SyncMustWrite(propertyId, fileNameId) ==
    /\ Includes(idSources, FileName)
    /\ Includes(idSources, Property)
    /\ ~Falsy(fileNameId)
    /\ (Falsy(propertyId) \/ ~StrictEq(propertyId, fileNameId))

\* The vault's "modify" handler on `file`: syncIdFromFileName up to its end
\* or up to the await of saveIdToProperty.
OnModify(file) ==
    LET propertyId == findIdInProperty(file)
        fileNameId == findIdInFileName(fileName[file])
        call == [op |-> "sync", file |-> file, id |-> fileNameId]
        o == [Idle EXCEPT !.op = "modify", !.file = file]
    IN /\ file \in modified
       /\ modified' = modified \ {file}
       /\ IF syncIdToProperty /\ SyncMustWrite(propertyId, fileNameId)
          THEN /\ Len(pending) < MaxPending
               /\ pending' = Append(pending, call)
               /\ last' = [o EXCEPT !.id = fileNameId, !.issued = <<call>>]
          ELSE /\ pending' = pending
               /\ last' = o
       /\ UNCHANGED <<settingsVars, vaultName, fileName, disk, cache, dataview,
                      pagesOrder, filesOrder>>

\* ------------------------------------------------------- protocol handler

\* The first element of `order` that satisfies P, NoFile if there is none.
First(order, P(_)) ==
    LET hits == {i \in 1..Len(order) : P(order[i])}
    IN IF hits = {} THEN NoFile
       ELSE order[CHOOSE i \in hits : \A j \in hits : i <= j]

\* Position of the last "." of a name (0: none).
LastDot(x) ==
    LET dots == {i \in 1..Len(x) : x[i] = "."}
    IN IF dots = {} THEN 0 ELSE CHOOSE i \in dots : \A j \in dots : j <= i

\* Dataview's p.file.name: the file's name without its extension.
DvFileName(name) ==
    IF LastDot(name) = 0 THEN name ELSE SubSeq(name, 1, LastDot(name) - 1)

\* The matcher loadChecks builds for `source`, applied to the page of note p.
Check(source, p, id) ==
    IF source = Property
    THEN LooseEq(cache[p][idProperty], id)
    ELSE StrictEq(findIdInFileName(DvFileName(fileName[p])), Str(id))

\* dvApi.pages().where(p => checks.some(check => check(p, id))).first()
QueryPages(id) ==
    LET Hit(p) == \E i \in 1..Len(checks) : Check(checks[i], p, id)
    IN First(pagesOrder, Hit)

\* app.vault.getFiles().find(file => findIdInFileName(file.name) === id)
ScanFiles(id) ==
    LET Hit(f) == StrictEq(findIdInFileName(fileName[f]), Str(id))
    IN First(filesOrder, Hit)

\* The id check that only rejects an empty id.
IdMissing_OnlyEmpty(params) == params.id = Str(<<>>)

\* Whether the handler finds no `id` among the parameters.
IdMissing(params) == Falsy(params.id)

\* The fallback taken whether or not the FileName source is enabled.
ShouldScan_Always(path) == path = NoFile

\* Whether the handler falls back to the scan of the vault's files.
ShouldScan(path) == path = NoFile /\ Includes(idSources, FileName)

\* The "id-link" protocol handler on the decoded parameters `params`.
HandlerOutcome(params) ==
    LET o == [Idle EXCEPT !.op = "follow", !.params = params]
    IN IF dataview # "ok" THEN showErrorAndThrow(o, DataviewMissing, <<>>)
       ELSE IF IdMissing(params)
       THEN showErrorAndThrow(o, "Id is missed in link", <<>>)
       ELSE LET id == params.id.s
                found == QueryPages(id)
                path == IF ShouldScan(found) THEN ScanFiles(id) ELSE found
                q == [o EXCEPT !.queried = TRUE, !.scanned = ShouldScan(found)]
            IN IF path = NoFile
               THEN showErrorAndThrow(q, "Page with id is not found", id)
               ELSE [q EXCEPT !.opened =
                        [file |-> path,
                         sub |-> IF Falsy(params.block) THEN Undef ELSE params.block]]

FollowLink(params) ==
    /\ last' = HandlerOutcome(params)
    /\ UNCHANGED <<settingsVars, hostVars, pending>>

\* Position of the first c in x (0: none).
IndexOf(x, c) ==
    LET hits == {i \in 1..Len(x) : x[i] = c}
    IN IF hits = {} THEN 0 ELSE CHOOSE i \in hits : \A j \in hits : i <= j

\* x cut at every c.
RECURSIVE Split(_, _)
Split(x, c) ==
    IF IndexOf(x, c) = 0 THEN <<x>>
    ELSE <<SubSeq(x, 1, IndexOf(x, c) - 1)>>
         \o Split(SubSeq(x, IndexOf(x, c) + 1, Len(x)), c)

\* The host's parsing of an obsidian:// link: the query is what follows "?"
\* up to the fragment; it is cut at "&", each part at its first "=", and both
\* sides are percent-decoded. The result lists the keys and the values in
\* the order of the link.
ParseLink(link) ==
    LET rest == SubSeq(link, 3, Len(link))
        query == IF IndexOf(rest, "#") = 0 THEN rest
                 ELSE SubSeq(rest, 1, IndexOf(rest, "#") - 1)
        parts == Split(query, "&")
        KeyOf(q) == IF IndexOf(q, "=") = 0 THEN q ELSE SubSeq(q, 1, IndexOf(q, "=") - 1)
        ValOf(q) == IF IndexOf(q, "=") = 0 THEN <<>>
                    ELSE SubSeq(q, IndexOf(q, "=") + 1, Len(q))
    IN [keys |-> [i \in 1..Len(parts) |-> decodeURIComponent(KeyOf(parts[i]))],
        vals |-> [i \in 1..Len(parts) |-> decodeURIComponent(ValOf(parts[i]))]]

\* params[key] of a parsed link.
Param(parsed, key) ==
    LET hits == {i \in 1..Len(parsed.keys) : parsed.keys[i] = key}
    IN IF hits = {} THEN Undef
       ELSE Str(parsed.vals[CHOOSE i \in hits : \A j \in hits : j <= i])

BlockKey == <<"b", "l", "o", "c", "k", "-", "i", "d">>

\* The user opens the link that the latest step copied to the clipboard: the
\* host parses it and calls the handler.
FollowCopied ==
    /\ last.op \in {"copyIdLink", "copyIdLinkDone"}
    /\ last.clipboard # Undef
    /\ LET parsed == ParseLink(last.clipboard.s)
           params == [id |-> Param(parsed, IdKey), block |-> Param(parsed, BlockKey)]
       IN last' = [HandlerOutcome(params) EXCEPT
                      !.op = "followCopied", !.id = last.id, !.result = last.clipboard]
    /\ UNCHANGED <<settingsVars, hostVars, pending>>

\* --------------------------------------------------------------- settings

\* What a callback of the settings tab leaves in `last`: its name and the
\* settings it started from.
SettingsStep(op) == [Idle' EXCEPT !.op = op, !.pre = Pre]

\* The toggle callback without its sort.
SortSources_Unsorted(seq) == seq

\* Array.prototype.sort on IdSource values: "0-property" sorts before
\* "1-fileName".
SortSources(seq) ==
    SelectSeq(seq, LAMBDA x : x = Property) \o SelectSeq(seq, LAMBDA x : x = FileName)

\* loadChecks: one matcher per configured source, in order.
loadChecks(sources) == [i \in 1..Len(sources) |-> sources[i]]

\* The onChange callback of a source toggle switched to `value`.
ToggleIdSource(source, value) ==
    LET changed == IF value THEN Append(idSources, source)
                   ELSE SelectSeq(idSources, LAMBDA x : x # source)
    IN /\ value # Includes(idSources, source)
       /\ idSources' = SortSources(changed)
       /\ checks' = loadChecks(idSources')
          /\ UNCHANGED <<idProperty, idFilenameRegex, idFormat, autoGenerateId,
                      syncIdToProperty, filenameRegex, hostVars, pending>>
    /\ last' = SettingsStep("toggle")

SetIdProperty(value) ==
    /\ Includes(idSources, Property)
    /\ value # idProperty
    /\ idProperty' = value
    /\ UNCHANGED <<idSources, idFilenameRegex, idFormat, autoGenerateId,
                   syncIdToProperty, checks, filenameRegex, hostVars, pending>>
    /\ last' = SettingsStep("setIdProperty")

SetAutoGenerateId(value) ==
    /\ Includes(idSources, Property)
    /\ value # autoGenerateId
    /\ autoGenerateId' = value
    /\ UNCHANGED <<idSources, idProperty, idFilenameRegex, idFormat,
                   syncIdToProperty, checks, filenameRegex, hostVars, pending>>
    /\ last' = SettingsStep("setAutoGenerateId")

\* The regex text field: stores the source and calls updateFilenameRegex,
\* whose exception (the text does not compile) ends the callback.
SetIdFilenameRegex(value) ==
    /\ Includes(idSources, FileName)
    /\ value # idFilenameRegex
    /\ idFilenameRegex' = value
    /\ filenameRegex' = IF Compiles(idFilenameRegex')
                        THEN NewRegExp(idFilenameRegex') ELSE filenameRegex
    /\ UNCHANGED <<idSources, idProperty, idFormat, autoGenerateId,
                   syncIdToProperty, checks, hostVars, pending>>
    /\ last' = SettingsStep("setIdFilenameRegex")

SetIdFormat(value) ==
    /\ value # idFormat
    /\ idFormat' = value
    /\ UNCHANGED <<idSources, idProperty, idFilenameRegex, autoGenerateId,
                   syncIdToProperty, checks, filenameRegex, hostVars, pending>>
    /\ last' = SettingsStep("setIdFormat")

SetSyncIdToProperty(value) ==
    /\ Includes(idSources, Property)
    /\ Includes(idSources, FileName)
    /\ value # syncIdToProperty
    /\ syncIdToProperty' = value
    /\ UNCHANGED <<idSources, idProperty, idFilenameRegex, idFormat,
                   autoGenerateId, checks, filenameRegex, hostVars, pending>>
    /\ last' = SettingsStep("setSyncIdToProperty")

\* ------------------------------------------------------------ environment

\* The user saves `file`: the vault raises "modify".
UserSave(file) ==
    /\ file \notin modified
    /\ modified' = modified \cup {file}
    /\ UNCHANGED <<settingsVars, vaultName, fileName, disk, cache, dataview,
                   pagesOrder, filesOrder, pending>>
    /\ last' = Idle'

\* The metadata cache parses the stored file.
CacheRefresh(file) ==
    /\ cache[file] # disk[file]
    /\ cache' = [cache EXCEPT ![file] = disk[file]]
    /\ UNCHANGED <<settingsVars, vaultName, fileName, disk, dataview,
                   pagesOrder, filesOrder, modified, pending>>
    /\ last' = Idle'

\* The Dataview plugin is enabled, disabled, or enabled without an API.
SetDataview(value) ==
    /\ value # dataview
    /\ dataview' = value
    /\ UNCHANGED <<settingsVars, vaultName, fileName, disk, cache,
                   pagesOrder, filesOrder, modified, pending>>
    /\ last' = Idle'

\* ---------------------------------------------------------- initial states

Formats == {"YYYYMMDDHHmmss", "ss"}
Patterns == {Group(2), NoGroup(2), Star}
SourceLists == {<<>>, <<Property>>, <<FileName>>, <<Property, FileName>>}

\* "12 a.md", "a.md", "12.md", ".md", "b.md" and "12 b.md".
Name12a == <<"1", "2", " ", "a", ".", "m", "d">>
NameA == <<"a", ".", "m", "d">>
Name12 == <<"1", "2", ".", "m", "d">>
NameDot == <<".", "m", "d">>
NameB == <<"b", ".", "m", "d">>
Name12b == <<"1", "2", " ", "b", ".", "m", "d">>

\* Values a front matter property can hold: none, null, "", "12", "34", 0, 12.
PropValues ==
    {Undef, Null, Str(<<>>), Str(<<"1", "2">>), Str(<<"3", "4">>), Num(0), Num(12)}

NoFrontMatter == [k \in Keys |-> Undef]
Orders == {<<"A", "B">>, <<"B", "A">>}

\* What loadSettings, loadChecks and updateFilenameRegex leave, for any stored
\* settings, and a vault whose cache is up to date.
InitPlugin ==
    /\ checks = loadChecks(idSources)
    /\ filenameRegex = NewRegExp(idFilenameRegex)
    /\ cache = disk
    /\ modified = {}
    /\ pending = <<>>
    /\ last = Idle

\* Resolution and synchronization on note A, under every configuration.
Init ==
    /\ idSources \in SourceLists
    /\ idProperty \in Keys
    /\ idFilenameRegex \in Patterns
    /\ idFormat = "YYYYMMDDHHmmss"
    /\ autoGenerateId \in BOOLEAN
    /\ syncIdToProperty \in BOOLEAN
    /\ vaultName = <<"V">>
    /\ fileName \in {[A |-> n, B |-> NameB] :
                        n \in {Name12a, NameA, Name12, NameDot}}
    /\ disk \in {[A |-> [id |-> v, uid |-> w], B |-> NoFrontMatter] :
                    v \in PropValues, w \in {Undef, Str(<<"3", "4">>)}}
    /\ dataview = "ok"
    /\ pagesOrder = <<"A", "B">>
    /\ filesOrder = <<"A", "B">>
    /\ InitPlugin

Next ==
    \/ \E file \in {"A", NoFile} : CopyId(file)
    \/ CopyIdLink("A")
    \/ CopyIdLinkNoFile
    \/ \E i \in 1..Len(pending) : WriteBack(i)
    \/ OnModify("A")
    \/ UserSave("A")
    \/ CacheRefresh("A")

Spec == Init /\ [][Next]_vars

\* Following links into a vault of two notes, and copying their identifiers,
\* under every choice of enabled sources and both enumeration orders of the
\* index; identifiers are not generated (autoGenerateId is off).
LinkIds == {Undef, Str(<<>>), Str(<<"1", "2">>), Str(<<"3", "4">>), Str(<<"0", "1", "2">>)}
\* The decoded parameters of the links followed: no id, an empty id, ids with
\* and without a matching note, and one link to a block.
LinkParams ==
    {[id |-> id, block |-> Undef] : id \in LinkIds}
        \cup {[id |-> Str(<<"1", "2">>), block |-> Str(<<"b">>)]}
LookupValues == {Undef, Str(<<"1", "2">>), Str(<<"3", "4">>), Num(12)}

InitLookup ==
    /\ idSources \in SourceLists
    /\ idProperty = "id"
    /\ idFilenameRegex = Group(2)
    /\ idFormat = "YYYYMMDDHHmmss"
    /\ autoGenerateId = FALSE
    /\ syncIdToProperty = FALSE
    /\ vaultName = <<"V">>
    /\ fileName \in {[A |-> a, B |-> b] :
                        a \in {NameA, Name12a}, b \in {NameB, Name12b, Name12}}
    /\ disk \in {[A |-> [id |-> v, uid |-> Undef], B |-> [id |-> w, uid |-> Undef]] :
                    v \in LookupValues, w \in LookupValues}
    /\ dataview = "ok"
    /\ pagesOrder \in Orders
    /\ filesOrder \in Orders
    /\ InitPlugin

NextLookup ==
    \/ \E params \in LinkParams : FollowLink(params)
    \/ \E file \in Notes \cup {NoFile} : CopyId(file)
    \/ \E file \in Notes : CopyIdLink(file)
    \/ CopyIdLinkNoFile
    \/ \E value \in {"ok", "disabled", "noapi"} : SetDataview(value)
    \/ \E source \in IdSource, value \in BOOLEAN : ToggleIdSource(source, value)

SpecLookup == InitLookup /\ [][NextLookup]_vars

\* The link codec: a note whose property holds any string of at most MaxIdLen
\* characters, in a vault of any name of at most MaxVaultLen characters, under
\* the default settings.
IdChars == {"a", "&", "#", "%", "2", "5"}
VaultChars == {"V", "&", " "}
Strings(chars, n) == UNION {[1..k -> chars] : k \in 0..n}

InitCodec ==
    /\ idSources = <<Property, FileName>>
    /\ idProperty = "id"
    /\ idFilenameRegex = Group(2)
    /\ idFormat = "YYYYMMDDHHmmss"
    /\ autoGenerateId = TRUE
    /\ syncIdToProperty = FALSE
    /\ vaultName \in Strings(VaultChars, MaxVaultLen)
    /\ fileName = [A |-> NameA, B |-> NameB]
    /\ disk \in {[A |-> [id |-> Str(x), uid |-> Undef], B |-> NoFrontMatter] :
                    x \in Strings(IdChars, MaxIdLen)}
    /\ dataview = "ok"
    /\ pagesOrder = <<"A", "B">>
    /\ filesOrder = <<"A", "B">>
    /\ InitPlugin

NextCodec ==
    \/ CopyIdLink("A")
    \/ \E i \in 1..Len(pending) : WriteBack(i)
    \/ CacheRefresh("A")
    \/ FollowCopied

SpecCodec == InitCodec /\ [][NextCodec]_vars

\* The settings tab: from the default settings, every sequence of changes of
\* the toggles and text fields, with links followed into a vault where note A
\* holds identifier "12" under `id`, "34" under `uid`, and note B is named
\* "12 b.md".
TypedPatterns == Patterns \cup {Invalid}
SettingsLinks ==
    {[id |-> Str(<<"1", "2">>), block |-> Undef],
     [id |-> Str(<<"3", "4">>), block |-> Undef]}

InitSettings ==
    /\ idSources = <<Property, FileName>>
    /\ idProperty = "id"
    /\ idFilenameRegex = Group(2)
    /\ idFormat = "YYYYMMDDHHmmss"
    /\ autoGenerateId = TRUE
    /\ syncIdToProperty = FALSE
    /\ vaultName = <<"V">>
    /\ fileName = [A |-> NameA, B |-> Name12b]
    /\ disk = [A |-> [id |-> Str(<<"1", "2">>), uid |-> Str(<<"3", "4">>)],
               B |-> NoFrontMatter]
    /\ dataview = "ok"
    /\ pagesOrder \in Orders
    /\ filesOrder = <<"A", "B">>
    /\ InitPlugin

NextSettings ==
    \/ \E source \in IdSource, value \in BOOLEAN : ToggleIdSource(source, value)
    \/ \E value \in Keys : SetIdProperty(value)
    \/ \E value \in BOOLEAN : SetAutoGenerateId(value)
    \/ \E value \in TypedPatterns : SetIdFilenameRegex(value)
    \/ \E value \in Formats : SetIdFormat(value)
    \/ \E value \in BOOLEAN : SetSyncIdToProperty(value)
    \/ \E params \in SettingsLinks : FollowLink(params)

SpecSettings == InitSettings /\ [][NextSettings]_vars

\* Resolution calls racing on note A, which has no identifier, under the
\* default settings: up to RaceCalls calls are suspended at their write-back
\* at once, at up to RaceClock different instants.
InitRace ==
    /\ idSources = <<Property, FileName>>
    /\ idProperty = "id"
    /\ idFilenameRegex = Group(2)
    /\ idFormat = "YYYYMMDDHHmmss"
    /\ autoGenerateId = TRUE
    /\ syncIdToProperty = FALSE
    /\ vaultName = <<"V">>
    /\ fileName = [A |-> NameA, B |-> NameB]
    /\ disk = [A |-> NoFrontMatter, B |-> NoFrontMatter]
    /\ dataview = "ok"
    /\ pagesOrder = <<"A", "B">>
    /\ filesOrder = <<"A", "B">>
    /\ InitPlugin

NextRace ==
    \/ CopyIdLinkAt("A", 1..RaceClock, RaceCalls)
    \/ \E i \in 1..Len(pending) : WriteBack(i)
    \/ CacheRefresh("A")
    \/ OnModify("A")

SpecRace == InitRace /\ [][NextRace]_vars

\* ------------------------------------------- the contract of resolution

\* A property or a capture group holds an identifier: it is present and not
\* the empty string.
HasValue(v) == v.t \in {"str", "num"} /\ v # Str(<<>>)

\* A held value as a string.
AsString(v) == IF v.t = "num" THEN Str(NumToStr(v.n)) ELSE v

\* The identifier the resolution policy prescribes for note f in the state
\* `pre`: the property's value if the Property source is enabled and the
\* property holds one, else capture group 1 if the FileName source is enabled
\* and the name matches, else absent.
Resolved(pre, f) ==
    LET prop == pre.cache[f][pre.idProperty]
        m == RegExpExec(pre.filenameRegex, pre.fileName[f])
    IN IF Includes(pre.idSources, Property) /\ HasValue(prop) THEN AsString(prop)
       ELSE IF Includes(pre.idSources, FileName) /\ m.matched THEN m.g1
       ELSE Undef

\* C1: findId returns the property's value (as a string) when the Property
\* source is enabled and the note holds one, else capture group 1 when the
\* FileName source is enabled and the name matches, else nothing (an empty
\* string counts as nothing).
C1_FindIdFollowsSourceOrder ==
    (last.op = "copyId" /\ last.file # NoFile)
        => IF HasValue(Resolved(last.pre, last.file))
           THEN last.result = Resolved(last.pre, last.file)
           ELSE ~HasValue(last.result)

\* C2: findIdAndGenerateLink generates and writes an identifier exactly when
\* no enabled source yields one, autoGenerateId is set and the Property
\* source is enabled; otherwise it writes nothing and returns absent when no
\* source matched.
C2_GeneratesIffNothingResolved ==
    (last.op = "copyIdLink" /\ last.file # NoFile)
        => /\ (last.issued # <<>>) <=>
                  /\ ~HasValue(Resolved(last.pre, last.file))
                  /\ last.pre.autoGenerateId
                  /\ Includes(last.pre.idSources, Property)
           /\ (last.issued = <<>> /\ ~HasValue(Resolved(last.pre, last.file)))
                  => last.result = Undef

\* C5: Copy Id never starts a write-back, a resolution call starts at most
\* one, and none when a source yields an identifier.
C5_ExtractionNeverWrites ==
    /\ last.op = "copyId" => (last.issued = <<>> /\ last.wrote = <<>>)
    /\ last.op = "copyIdLink" =>
          /\ Len(last.issued) <= 1
          /\ (last.file # NoFile /\ HasValue(Resolved(last.pre, last.file)))
                => last.issued = <<>>

\* ------------------------------------------------------- synchronization

\* The identifier capture group 1 of the configured pattern gives for the
\* name of note f in the state `pre`.
FileNameId(pre, f) == RegExpExec(pre.filenameRegex, pre.fileName[f]).g1

\* The condition under which a "modify" event of note f must write: the flag
\* is set, both sources are enabled, the name yields an identifier and the
\* property holds none or a value other than that string.
SyncRequired(pre, f) ==
    /\ pre.syncIdToProperty
    /\ Includes(pre.idSources, Property)
    /\ Includes(pre.idSources, FileName)
    /\ HasValue(FileNameId(pre, f))
    /\ \/ ~HasValue(pre.cache[f][pre.idProperty])
       \/ pre.cache[f][pre.idProperty] # FileNameId(pre, f)

C9_ResolutionIdempotent ==
    [][(/\ last.op \in {"copyIdLink", "copyIdLinkDone"}
        /\ last.file # NoFile
        /\ last'.op = "copyIdLink"
        /\ last'.file = last.file
        /\ ~autoGenerateId)
           => (/\ last'.result = last.result
               /\ last'.issued = <<>>
               /\ disk' = disk /\ cache' = cache /\ pending' = pending)]_vars

\* Two resolution calls in a row on a note whose name supplies the
\* identifier, with autoGenerateId off: the second call has returned a link.
C9_Witness ==
    /\ last.op = "copyIdLink"
    /\ last.file = "A"
    /\ ~autoGenerateId
    /\ last.result # Undef
    /\ last.pre.cache["A"][idProperty] = Undef

\* ----------------------------------------------------------------- lookup

\* Note p matches the identifier `id` through its property, as the Dataview
\* query compares it (==), and through its name, by capture group 1 of the
\* name Dataview reports (indexed query) or of the file's name (scan).
MatchesProperty(pre, p, id) == LooseEq(pre.cache[p][pre.idProperty], id)
MatchesPageName(pre, p, id) ==
    RegExpExec(pre.filenameRegex, DvFileName(pre.fileName[p])).g1 = Str(id)
MatchesFileName(pre, p, id) == FileNameId(pre, p) = Str(id)

\* Some note matches `id` through an enabled source, in the indexed query or
\* in the scan of the files.
SomeMatch(pre, id) ==
    \E p \in Notes :
        \/ Includes(pre.idSources, Property) /\ MatchesProperty(pre, p, id)
        \/ Includes(pre.idSources, FileName) /\ MatchesPageName(pre, p, id)
        \/ Includes(pre.idSources, FileName) /\ MatchesFileName(pre, p, id)

MissingIdentifier == Msg("Id Link: ", "Id is missed in link", <<>>)
IndexUnavailable == Msg("Id Link: ", DataviewMissing, <<>>)
NotFound(id) == Msg("Id Link: ", "Page with id is not found", id)
NoIdentifierFound == Msg("", "No ID found in the file", <<>>)

\* The handler did nothing but report the error e and throw it.
FailedWith(e) ==
    /\ last.notices = <<e>>
    /\ last.thrown = e
    /\ last.opened = NoOpen
    /\ last.clipboard = Undef

\* C4: with sources [property, filename], when one note matches the
\* identifier through its property and another one only through its name,
\* the handler opens the note that matches through its property.
C4_PropertyMatchWins ==
    (/\ last.op = "follow"
     /\ last.pre.dataview = "ok"
     /\ HasValue(last.params.id)
     /\ last.pre.idSources = <<Property, FileName>>)
        => \A a, b \in Notes :
              (/\ a # b
               /\ MatchesProperty(last.pre, a, last.params.id.s)
               /\ ~MatchesFileName(last.pre, a, last.params.id.s)
               /\ MatchesFileName(last.pre, b, last.params.id.s)
               /\ ~MatchesProperty(last.pre, b, last.params.id.s))
                  => last.opened.file = a

\* C6 as stated: a link whose identifier matches no note through any enabled
\* source fails with NotFound, shown once and thrown, and opens nothing.
C6_NoMatchIsNotFound ==
    (/\ last.op = "follow"
     /\ HasValue(last.params.id)
     /\ ~SomeMatch(last.pre, last.params.id.s))
        => FailedWith(NotFound(last.params.id.s))

\* C6, amended: if Dataview is available, such a link fails with NotFound,
\* shown once and thrown, and opens nothing; if Dataview is not available it
\* fails with the Dataview error instead, before any lookup.
C6_NoMatchIsNotFoundWithIndex ==
    (/\ last.op = "follow"
     /\ HasValue(last.params.id)
     /\ ~SomeMatch(last.pre, last.params.id.s))
        => IF last.pre.dataview = "ok"
           THEN FailedWith(NotFound(last.params.id.s)) /\ last.queried
           ELSE FailedWith(IndexUnavailable) /\ ~last.queried /\ ~last.scanned

\* A link was followed whose identifier no note matches: the query and the
\* scan both ran and NotFound was thrown.
C6_Witness ==
    /\ last.op = "follow"
    /\ last.scanned
    /\ last.thrown = NotFound(<<"3", "4">>)

\* C7 as stated: a link without an `id` parameter fails with the
\* MissingIdentifier error, no note is looked up and nothing is opened.
C7_NoIdIsMissingIdentifier ==
    (last.op = "follow" /\ last.params.id = Undef)
        => /\ FailedWith(MissingIdentifier)
           /\ MissingIdentifier \notin {IndexUnavailable, NotFound(<<>>)}
           /\ ~last.queried /\ ~last.scanned

\* C7, amended: if Dataview is available, a link without an `id` parameter
\* fails with the MissingIdentifier error; if it is not, with the Dataview
\* error; either way no note is looked up and nothing is opened.
C7_NoIdIsMissingIdentifierWithIndex ==
    (last.op = "follow" /\ last.params.id = Undef)
        => /\ IF last.pre.dataview = "ok" THEN FailedWith(MissingIdentifier)
              ELSE FailedWith(IndexUnavailable)
           /\ MissingIdentifier \notin {IndexUnavailable, NotFound(<<>>)}
           /\ ~last.queried /\ ~last.scanned

\* A link without `id` was followed with Dataview available.
C7_Witness ==
    /\ last.op = "follow"
    /\ last.params.id = Undef
    /\ last.pre.dataview = "ok"
    /\ last.thrown = MissingIdentifier

\* The error condition an operation meets, NoMsg if none: the handler's are
\* told apart in the order Dataview, id, match; a copy command has neither
\* found nor generated an identifier.
ErrorCondition ==
    IF last.op = "follow"
    THEN IF last.pre.dataview # "ok" THEN "IndexUnavailable"
         ELSE IF ~HasValue(last.params.id) THEN "MissingIdentifier"
         ELSE IF ~SomeMatch(last.pre, last.params.id.s) THEN "NotFound"
         ELSE "none"
    ELSE IF last.op \in {"copyId", "copyIdLink"} /\ last.file # NoFile
              /\ last.issued = <<>> /\ ~HasValue(last.result)
    THEN "NoIdentifierFound"
    ELSE "none"

ErrorText(e) ==
    CASE e = "IndexUnavailable" -> DataviewMissing
      [] e = "MissingIdentifier" -> "Id is missed in link"
      [] e = "NotFound" -> "Page with id is not found"
      [] e = "NoIdentifierFound" -> "No ID found in the file"

ErrorTexts ==
    {DataviewMissing, "Id is missed in link", "Page with id is not found",
     "No ID found in the file"}

\* The operation showed the text of error e once, with the prefix `prefix`,
\* showed nothing else and did nothing further.
ReportedOnce(e, prefix) ==
    /\ Len(last.notices) = 1
    /\ last.notices[1].text = ErrorText(e)
    /\ last.notices[1].prefix = prefix
    /\ last.opened = NoOpen
    /\ last.clipboard = Undef
    /\ last.issued = <<>>

\* C10 as stated: every error condition is shown exactly once with the
\* "Id Link: " prefix and the operation does nothing further.
C10_ErrorsReportedOncePrefixed ==
    IF ErrorCondition = "none"
    THEN \A i \in 1..Len(last.notices) : last.notices[i].text \notin ErrorTexts
    ELSE ReportedOnce(ErrorCondition, "Id Link: ")

\* C10, amended: MissingIdentifier, NotFound and IndexUnavailable are shown
\* exactly once with the "Id Link: " prefix and thrown; NoIdentifierFound is
\* shown exactly once without prefix and not thrown; the operation does
\* nothing further, and no error is shown when none occurred.
C10_ErrorsReportedOnce ==
    IF ErrorCondition = "none"
    THEN /\ \A i \in 1..Len(last.notices) : last.notices[i].text \notin ErrorTexts
         /\ last.thrown = NoMsg
    ELSE IF ErrorCondition = "NoIdentifierFound"
    THEN ReportedOnce(ErrorCondition, "") /\ last.thrown = NoMsg
    ELSE ReportedOnce(ErrorCondition, "Id Link: ") /\ last.thrown = last.notices[1]

\* "Copy ID Link" on a note without identifier showed the plain notice.
C10_Witness ==
    /\ last.op = "copyIdLink"
    /\ last.file = "B"
    /\ last.notices = <<NoIdentifierFound>>

\* ------------------------------------------------------------------ codec

Count(x, c) == Cardinality({i \in 1..Len(x) : x[i] = c})

\* C8: the link copied for an identifier, once parsed, gives back exactly
\* that identifier and no block, so the handler looks up the identifier that
\* was encoded; the link carries `vault` before `id`, and its values are
\* percent-encoded: the only "?", "&" and "=" of the link are those of its
\* structure and it has no "#" and no space.
C8_LinkRoundTrip ==
    last.op = "followCopied" =>
        LET link == last.result.s
            parsed == ParseLink(link)
        IN /\ last.params.id = last.id
           /\ last.params.block = Undef
           /\ last.queried
           /\ parsed.keys = <<VaultKey, IdKey>>
           /\ parsed.vals = <<vaultName, last.id.s>>
           /\ link[1] = Scheme
           /\ Count(link, "?") = 1 /\ Count(link, "&") = 1 /\ Count(link, "=") = 2
           /\ Count(link, "#") = 0 /\ Count(link, " ") = 0

\* The link of identifier "&#%" in vault "&" was copied and followed.
C8_Witness ==
    /\ last.op = "followCopied"
    /\ last.id = Str(<<"&", "#", "%">>)
    /\ vaultName = <<"&">>

\* --------------------------------------------------------------- settings

\* C11: in every state reached from the default settings by toggling the
\* sources, idSources holds each source at most once and Property before
\* FileName.
C11_SourcesSortedWithoutDuplicates ==
    /\ \A i, j \in 1..Len(idSources) : i # j => idSources[i] # idSources[j]
    /\ \A i, j \in 1..Len(idSources) :
          (idSources[i] = Property /\ idSources[j] = FileName) => i < j
    /\ \A i \in 1..Len(idSources) : idSources[i] \in IdSource

\* The Property source was switched on while FileName was the only source:
\* the pushed entry was sorted to the front.
C11_Witness ==
    /\ last.op = "toggle"
    /\ last.pre.idSources = <<FileName>>
    /\ idSources = <<Property, FileName>>

\* -------------------------------------------------------------- agreement

\* C12: the operations compare identifiers alike. For a note whose property
\* holds v and whose name gives the identifier s, with both sources and the
\* sync flag on: the matcher of the Property source takes the note as
\* matching s, exactly if synchronization takes the note as in agreement
\* (starts no write-back), exactly if resolution through the property gives s.
C12_OperationsAgreeOnEquality ==
    (/\ last.op = "modify"
     /\ last.pre.syncIdToProperty
     /\ last.pre.idSources = <<Property, FileName>>
     /\ HasValue(FileNameId(last.pre, last.file)))
        => LET s == FileNameId(last.pre, last.file)
               matches == Check(Property, last.file, s.s)
               inAgreement == last.issued = <<>>
               resolves == OptToString(findIdInProperty(last.file)) = s
           IN /\ matches <=> inAgreement
              /\ matches <=> resolves

\* C14: after any sequence of settings changes, `checks` holds one matcher
\* per enabled source, in the order of idSources, the compiled pattern is the
\* one of the configured idFilenameRegex, and a followed link only opens a
\* note that matches its identifier through an enabled source.
C14_LookupUsesCurrentSettings ==
    /\ Len(checks) = Len(idSources)
    /\ \A i \in 1..Len(checks) : checks[i] = idSources[i]
    /\ Compiles(idFilenameRegex) /\ filenameRegex = NewRegExp(idFilenameRegex)
    /\ (last.op = "follow" /\ last.opened # NoOpen) =>
          LET p == last.opened.file
              id == last.params.id.s
          IN \/ /\ Includes(idSources, Property)
                /\ MatchesProperty(last.pre, p, id)
             \/ /\ Includes(idSources, FileName)
                /\ (MatchesPageName(last.pre, p, id) \/ MatchesFileName(last.pre, p, id))

\* ------------------------------------------------------------------ races

\* C15: the chain of synchronization runs that one save starts performs at
\* most one write-back: the run triggered by the "modify" event of a
\* completed synchronization write-back finds the property equal to the
\* name's identifier and starts no further write-back.
C15_SyncChainWritesOnce ==
    [][(/\ last.op = "syncDone"
        /\ last'.op = "modify"
        /\ last'.file = last.file)
           => last'.issued = <<>>]_vars

\* C13: no update is lost. Every identifier stored in note A is one whose
\* link a completed resolution call has returned (the note starts without
\* one and only resolution writes), so every link returned carries the
\* stored identifier only if no completing call replaces a stored identifier
\* by another one.
C13_NoLostUpdate ==
    [][(/\ last'.op = "copyIdLinkDone"
        /\ HasValue(disk[last'.file][idProperty]))
           => disk'[last'.file][idProperty] = disk[last'.file][idProperty]]_vars


\* ----------------------------------------------------- lookup vs resolution

\* C16: a followed link with identifier X only opens a note for which findId,
\* under the same settings, returns X.
C16_OpenedNoteResolvesToId ==
    (last.op = "follow" /\ last.opened # NoOpen)
        => findId(last.opened.file) = last.params.id

=============================================================================
